---- MODULE Spec2Model ----
(***************************************************************************)
(* Model of vessel_irr_app.py: the resale estimator, the cash-flow build   *)
(* of the script body and the Newton-Raphson solver calculate_irr.         *)
(*                                                                         *)
(* Python floats are modelled by exact rationals.  A number is a record    *)
(* [n, d, e] standing for (n / d) * 10^e, kept in the canonical form       *)
(* produced by Norm: n/d in lowest terms, d > 0, e >= 0 the number of      *)
(* trailing decimal zeros of the reduced numerator.                        *)
(***************************************************************************)
EXTENDS Integers, Sequences, FiniteSets, TLC

\* ------------------------------------------------------------ arithmetic

Abs(x) == IF x < 0 THEN -x ELSE x

Sgn(x) == IF x < 0 THEN -1 ELSE IF x = 0 THEN 0 ELSE 1

RECURSIVE GCD(_, _)
GCD(a, b) == IF b = 0 THEN a ELSE GCD(b, a % b)

RECURSIVE IPow(_, _)
IPow(b, k) == IF k = 0 THEN 1 ELSE b * IPow(b, k - 1)

Zero == [n |-> 0, d |-> 1, e |-> 0]

\* n/d in lowest terms (d > 0), exponent untouched.
Reduce(n, d, e) ==
    LET g == GCD(Abs(n), d) IN [n |-> n \div g, d |-> d \div g, e |-> e]

\* Tens of the exponent are cancelled against factors 2 and 5 of d.
RECURSIVE Absorb(_)
Absorb(x) ==
    IF x.e > 0 /\ GCD(x.d, 10) > 1
    THEN Absorb(Reduce(x.n * 10, x.d, x.e - 1))
    ELSE x

\* Trailing zeros of the numerator go to the exponent.
RECURSIVE Strip(_)
Strip(x) ==
    IF x.n # 0 /\ x.n % 10 = 0
    THEN Strip([n |-> x.n \div 10, d |-> x.d, e |-> x.e + 1])
    ELSE x

Norm(n, d, e) ==
    IF n = 0 THEN Zero ELSE Strip(Absorb(Reduce(n, d, e)))

R(k) == Norm(k, 1, 0)

Frac(a, b) == Norm(a, b, 0)

RNeg(x) == [n |-> -x.n, d |-> x.d, e |-> x.e]

RAdd(x, y) ==
    IF x.n = 0 THEN y
    ELSE IF y.n = 0 THEN x
    ELSE LET m  == IF x.e < y.e THEN x.e ELSE y.e
             xn == x.n * IPow(10, x.e - m)
             yn == y.n * IPow(10, y.e - m)
             g  == GCD(x.d, y.d)
         IN  Norm(xn * (y.d \div g) + yn * (x.d \div g), (x.d \div g) * y.d, m)

RSub(x, y) == RAdd(x, RNeg(y))

RMul(x, y) ==
    IF x.n = 0 \/ y.n = 0 THEN Zero
    ELSE LET g1 == GCD(Abs(x.n), y.d)
             g2 == GCD(Abs(y.n), x.d)
         IN  Norm((x.n \div g1) * (y.n \div g2),
                  (x.d \div g2) * (y.d \div g1), x.e + y.e)

\* 1 / x for x # 0.
RInv(x) == Norm(Sgn(x.n) * x.d, Abs(x.n) * IPow(10, x.e), 0)

\* x / y for y # 0; the callers test y first (Python raises ZeroDivisionError).
RDiv(x, y) == RMul(x, RInv(y))

RECURSIVE RPow(_, _)
RPow(x, k) == IF k = 0 THEN R(1) ELSE RMul(x, RPow(x, k - 1))

RAbs(x) == [n |-> Abs(x.n), d |-> x.d, e |-> x.e]

\* a/b < c/d for a, c >= 0 and b, d > 0, by comparing continued fractions
\* (no product is formed).
RECURSIVE FracLess(_, _, _, _)
FracLess(a, b, c, d) ==
    IF a \div b # c \div d THEN a \div b < c \div d
    ELSE IF c % d = 0 THEN FALSE
    ELSE IF a % b = 0 THEN TRUE
    ELSE FracLess(d, c % d, b, a % b)

Plain(x) == x.n * IPow(10, x.e)

Min(a, b) == IF a < b THEN a ELSE b

\* x < y; the excess of one exponent is moved to the other side's denominator.
RLess(x, y) ==
    LET m  == Min(x.e, y.e)
        xd == x.d * IPow(10, y.e - m)
        yd == y.d * IPow(10, x.e - m)
    IN  IF x.n < 0 /\ y.n >= 0 THEN TRUE
        ELSE IF x.n >= 0 /\ y.n <= 0 THEN FALSE
        ELSE IF x.n = 0 THEN TRUE
        ELSE IF x.n > 0 THEN FracLess(x.n, xd, y.n, yd)
        ELSE FracLess(-y.n, yd, -x.n, xd)

RIsZero(x) == x.n = 0

\* Python's None (a name not yet bound) and float('nan').
None == [n |-> 0, d |-> 0, e |-> 0 - 1]

NaN == [n |-> 0, d |-> 0, e |-> 0]

VARIABLES
    \* sidebar inputs, lines 37-57
    vessel_type, purchase_price, opex_day, opex_growth, dd_cost, dd_year,
    investment_term, three_yr_tc, mortgage_percent, loan_interest_rate,
    loan_arrangement_fee, loan_repayment_term,
    earn_years_1_3, earn_years_4_5, earn_years_6_10,
    \* script body, lines 60-102
    resale_price, resale_price_net, initial_equity, loan_amount,
    annual_loan_payment, cash_flows, cf_table, opex, year,
    \* calculate_irr, lines 18-29
    guess, max_iterations, tolerance, rate, i, irr_result,
    \* control: position, the return statement taken (0: none), the exception
    pc, returned_at, raised

inputs == <<vessel_type, purchase_price, opex_day, opex_growth, dd_cost, dd_year,
            investment_term, three_yr_tc, mortgage_percent, loan_interest_rate,
            loan_arrangement_fee, loan_repayment_term,
            earn_years_1_3, earn_years_4_5, earn_years_6_10>>

body == <<resale_price, resale_price_net, initial_equity, loan_amount,
          annual_loan_payment, cf_table, opex, year>>

call == <<guess, max_iterations, tolerance>>

vars == <<inputs, body, cash_flows, call, rate, i, irr_result, pc, returned_at, raised>>

\* ------------------------------------------------------------ estimate_resale_price

\* lines 6-15.  The coefficients are the decimal literals of the source.
estimate_resale_price(vt, term, tc) ==
    LET resale_million ==
            IF vt = "Suezmax" /\ term = 5
            THEN RAdd(Frac(-2055, 100000), RMul(Frac(2150, 1000000), R(tc)))
            ELSE IF vt = "Suezmax" /\ term = 10
            THEN RAdd(Frac(-1561, 100), RMul(Frac(2164, 1000000), R(tc)))
            ELSE IF vt = "Aframax" /\ term = 5
            THEN RAdd(Frac(-3278, 10000), RMul(Frac(2016, 1000000), R(tc)))
            ELSE RAdd(Frac(-1122, 100), RMul(Frac(1915, 1000000), R(tc)))
    IN  RMul(resale_million, R(1000000))

\* line 37
VesselTypes == {"Suezmax", "Aframax"}

\* line 43
InvestmentTerms == {5, 10}

\* line 51: sale_commission_rate = 1.0
sale_commission_rate == 1

\* ------------------------------------------------------------ script body

\* line 61
ResalePriceNet(price) == RMul(price, RSub(R(1), Frac(sale_commission_rate, 100)))

\* line 64
InitialEquity == RMul(R(purchase_price), RSub(R(1), Frac(mortgage_percent, 100)))

\* line 65
LoanAmount == RMul(R(purchase_price), Frac(mortgage_percent, 100))

\* line 66 with the exponent +loan_repayment_term
AnnuityDenominatorPositiveExponent ==
    RSub(R(1), RPow(RAdd(R(1), Frac(loan_interest_rate, 100)), loan_repayment_term))

\* line 66, the divisor: 1 - (1 + loan_interest_rate / 100) ** (-loan_repayment_term)
AnnuityDenominator ==
    RSub(R(1), RInv(RPow(RAdd(R(1), Frac(loan_interest_rate, 100)), loan_repayment_term)))

\* line 66
AnnualLoanPayment ==
    RDiv(RMul(LoanAmount, Frac(loan_interest_rate, 100)), AnnuityDenominator)

\* lines 68-69 with the fee left out
Year0AmountWithoutFee == RNeg(InitialEquity)

\* lines 68-69: -initial_equity - loan_arrangement_fee
Year0Amount == RSub(RNeg(InitialEquity), R(loan_arrangement_fee))

\* lines 73-78 with the first band one year short (year < 3)
earningsShortBand(y) ==
    IF y < 3 THEN R(earn_years_1_3 * 365)
    ELSE IF y <= 5 THEN R(earn_years_4_5 * 365)
    ELSE R(earn_years_6_10 * 365)

\* lines 73-78
earnings(y) ==
    IF y <= 3 THEN R(earn_years_1_3 * 365)
    ELSE IF y <= 5 THEN R(earn_years_4_5 * 365)
    ELSE R(earn_years_6_10 * 365)

\* line 84
InLoanTerm(y) == y <= loan_repayment_term

\* line 89
IsDDYear(y) == dd_year = y /\ dd_cost > 0

\* line 94
IsFinalYear(y) == y = investment_term

\* lines 80-95, net_cash of the current year
NetCash(y) ==
    LET c0 == RSub(earnings(y), opex)
        c1 == IF InLoanTerm(y) THEN RSub(c0, annual_loan_payment) ELSE c0
        c2 == IF IsDDYear(y) THEN RSub(c1, R(dd_cost)) ELSE c1
    IN  IF IsFinalYear(y) THEN RAdd(c2, resale_price_net) ELSE c2

\* lines 81-96, note of the current year, one element per appended piece
Note(y) ==
    <<"Earnings - Opex">>
    \o (IF InLoanTerm(y) THEN <<" - Loan Payment">> ELSE <<>>)
    \o (IF IsDDYear(y) THEN <<" - DD Cost">> ELSE <<>>)
    \o (IF IsFinalYear(y) THEN <<" + Net Resale Value">> ELSE <<>>)

\* line 102
NextOpex == RMul(opex, RAdd(R(1), Frac(opex_growth, 100)))

\* Largest |estimated resale price| of the enumerated runs.
MaxResale == 2000

TCs == {9, 10, 162, 163, 5859, 5860, 7213, 7214}

Overhauls == {<<0, 0>>, <<0, 3>>, <<7, 0>>, <<7, 3>>, <<7, 7>>}

OpexInputs == {<<0, 0>>, <<1, 0>>, <<1, 100>>}

InitCallIdle ==
    /\ guess = None /\ max_iterations = 0 /\ tolerance = None
    /\ rate = None /\ i = 0 /\ irr_result = None
    /\ returned_at = 0 /\ raised = "none"

InitBodyIdle ==
    /\ resale_price = None /\ resale_price_net = None /\ initial_equity = None
    /\ loan_amount = None /\ annual_loan_payment = None
    /\ cf_table = <<>> /\ opex = None /\ year = 0

InitInputsIdle ==
    /\ purchase_price = 0 /\ opex_day = 0 /\ opex_growth = 0 /\ dd_cost = 0
    /\ dd_year = 0 /\ mortgage_percent = 0 /\ loan_interest_rate = 0
    /\ loan_arrangement_fee = 0 /\ loan_repayment_term = 1
    /\ earn_years_1_3 = 0 /\ earn_years_4_5 = 0 /\ earn_years_6_10 = 0

\* The sidebar widgets: every value respects the min_value / max_value / options
\* of its widget (lines 37-57).  The values are chosen so that the exact
\* arithmetic stays within 32-bit integers: three_yr_tc near the zero of each
\* regression line, and a purchase price 63426 = 2 * 31 * 1023 whose payments at
\* 100 % interest are whole.  earn_years_6_10 is bound only when investment_term
\* is 10 (line 56) and is never read otherwise.  The second disjunct is the run
\* that finances 60,000,000 at 5 % over 5 years.
Init ==
    /\ vessel_type \in VesselTypes
    /\ investment_term \in InvestmentTerms
    /\ three_yr_tc \in {t \in TCs :
           Abs(Plain(estimate_resale_price(vessel_type, investment_term, t))) <= MaxResale}
    /\ \/ /\ purchase_price \in {0, 63426}
          /\ mortgage_percent \in {0, 50}
          /\ loan_interest_rate \in {0, 100}
          /\ loan_arrangement_fee \in {0, 10}
          /\ loan_repayment_term \in {1, 5, 10}
          /\ \E o \in OpexInputs : opex_day = o[1] /\ opex_growth = o[2]
          /\ \E o \in Overhauls : dd_cost = o[1] /\ dd_year = o[2]
          /\ earn_years_1_3 = 2 /\ earn_years_4_5 = 3
          /\ earn_years_6_10 = IF investment_term = 10 THEN 5 ELSE 0
       \/ /\ investment_term = 10
          /\ purchase_price = 100000000
          /\ mortgage_percent = 60
          /\ loan_interest_rate = 5
          /\ loan_arrangement_fee = 100000
          /\ loan_repayment_term = 5
          /\ opex_day = 0 /\ opex_growth = 0 /\ dd_cost = 0 /\ dd_year = 0
          /\ earn_years_1_3 = 0 /\ earn_years_4_5 = 0 /\ earn_years_6_10 = 0
    /\ InitBodyIdle /\ cash_flows = <<>>
    /\ InitCallIdle
    /\ pc = "resale"

\* lines 60-61
Resale ==
    /\ pc = "resale"
    /\ resale_price' = estimate_resale_price(vessel_type, investment_term, three_yr_tc)
    /\ resale_price_net' = ResalePriceNet(resale_price')
    /\ pc' = "financing"
    /\ UNCHANGED <<inputs, initial_equity, loan_amount, annual_loan_payment, cash_flows,
                   cf_table, opex, year, call, rate, i, irr_result, returned_at, raised>>

\* lines 64-66 when the divisor of line 66 is zero: ZeroDivisionError ends the run
FinancingRaise ==
    /\ pc = "financing"
    /\ RIsZero(AnnuityDenominator)
    /\ initial_equity' = InitialEquity
    /\ loan_amount' = LoanAmount
    /\ pc' = "raised" /\ raised' = "ZeroDivisionError"
    /\ UNCHANGED <<inputs, resale_price, resale_price_net, annual_loan_payment, cash_flows,
                   cf_table, opex, year, call, rate, i, irr_result, returned_at>>

\* lines 64-71
Financing ==
    /\ pc = "financing"
    /\ ~RIsZero(AnnuityDenominator)
    /\ initial_equity' = InitialEquity
    /\ loan_amount' = LoanAmount
    /\ annual_loan_payment' = AnnualLoanPayment
    /\ cash_flows' = <<Year0Amount>>
    /\ cf_table' = <<[Year |-> 0, CashFlow |-> Year0Amount, Notes |-> <<"Equity + Loan Fee">>]>>
    /\ opex' = R(opex_day * 365)
    /\ year' = 1
    /\ pc' = "year"
    /\ UNCHANGED <<inputs, resale_price, resale_price_net, call, rate, i, irr_result,
                   returned_at, raised>>

\* lines 72-102, one turn of the for loop
YearStep ==
    /\ pc = "year" /\ year <= investment_term
    /\ cash_flows' = Append(cash_flows, NetCash(year))
    /\ cf_table' = Append(cf_table,
                          [Year |-> year, CashFlow |-> NetCash(year), Notes |-> Note(year)])
    /\ opex' = NextOpex
    /\ year' = year + 1
    /\ UNCHANGED <<inputs, resale_price, resale_price_net, initial_equity, loan_amount,
                   annual_loan_payment, call, rate, i, irr_result, pc, returned_at, raised>>

\* line 105 and line 19: calculate_irr(cash_flows) is entered with the defaults of
\* line 18.  Its iterations are followed in SpecIrr.
CallIrr ==
    /\ pc = "year" /\ year > investment_term
    /\ guess' = Frac(1, 10) /\ max_iterations' = 1000 /\ tolerance' = Frac(1, 1000000)
    /\ rate' = Frac(1, 10) /\ i' = 0
    /\ pc' = "loop"
    /\ UNCHANGED <<inputs, body, cash_flows, irr_result, returned_at, raised>>

Next ==
    \/ Resale
    \/ FinancingRaise
    \/ Financing
    \/ YearStep
    \/ CallIrr

Spec == Init /\ [][Next]_vars

\* ------------------------------------------------------------ claims on the script body

\* The data-model invariants a parameter set has to satisfy.
SatisfiesDataModel ==
    /\ investment_term > 0
    /\ mortgage_percent >= 0 /\ mortgage_percent <= 100
    /\ loan_repayment_term >= 1 /\ loan_repayment_term <= investment_term
    /\ (dd_year # 0 => dd_year >= 1 /\ dd_year <= investment_term)
    /\ opex_growth >= 0 /\ loan_interest_rate >= 0

DailyRate(y) ==
    IF y \in 1..3 THEN earn_years_1_3
    ELSE IF y \in 4..5 THEN earn_years_4_5
    ELSE earn_years_6_10

\* An overhaul is configured when it has a cost and a year.
OverhaulIn(y) == dd_cost > 0 /\ dd_year >= 1 /\ y = dd_year

ExpectedAmount(y) ==
    LET gross == R(DailyRate(y) * 365)
        cost  == RMul(R(opex_day * 365), RPow(RAdd(R(1), Frac(opex_growth, 100)), y - 1))
        loan  == IF y <= loan_repayment_term THEN annual_loan_payment ELSE Zero
        dd    == IF OverhaulIn(y) THEN R(dd_cost) ELSE Zero
        sale  == IF y = investment_term THEN resale_price_net ELSE Zero
    IN  RAdd(RSub(RSub(RSub(gross, cost), loan), dd), sale)

ExpectedNotes(y) ==
    [k \in 1..1 |-> "Earnings - Opex"]
    \o [k \in 1..(IF y <= loan_repayment_term THEN 1 ELSE 0) |-> " - Loan Payment"]
    \o [k \in 1..(IF OverhaulIn(y) THEN 1 ELSE 0) |-> " - DD Cost"]
    \o [k \in 1..(IF y = investment_term THEN 1 ELSE 0) |-> " + Net Resale Value"]

\* C1: the entry of every year y in 1..investment_term has the amount
\* rate(band of y) * 365 - opex(1) * (1 + growth)^(y-1), less the loan payment iff
\* y <= loan_repayment_term, less the overhaul cost iff y is the year of the
\* configured overhaul, plus the net resale value iff y is the final year; its
\* note lists exactly these adjustments in that order; the finished table has
\* one entry per year 0..investment_term.
C1_YearEntries ==
    /\ \A k \in 2..Len(cf_table) :
          /\ cf_table[k].Year = k - 1
          /\ cf_table[k].CashFlow = ExpectedAmount(k - 1)
          /\ cash_flows[k] = ExpectedAmount(k - 1)
          /\ cf_table[k].Notes = ExpectedNotes(k - 1)
    /\ Len(cash_flows) = Len(cf_table)
    /\ pc = "loop" => Len(cf_table) = investment_term + 1

\* C1 witness: a finished table with a loan shorter than the holding period, a
\* growing opex and an overhaul inside the holding period.
C1_Witness ==
    /\ pc = "loop" /\ Len(cf_table) = investment_term + 1
    /\ mortgage_percent > 0 /\ purchase_price > 0
    /\ loan_repayment_term < investment_term
    /\ opex_day > 0 /\ opex_growth > 0
    /\ dd_cost > 0 /\ dd_year \in 1..investment_term

\* C3 (as claimed): with no loan and no overhaul cost the year-0 amount is
\* -purchase_price, whatever the arrangement fee.
C3_Year0IsMinusPurchasePrice ==
    (mortgage_percent = 0 /\ dd_cost = 0 /\ Len(cash_flows) >= 1)
    => cash_flows[1] = R(-purchase_price)

\* C3 (amended): with no loan and no overhaul cost the year-0 amount is
\* -(purchase_price + loan_arrangement_fee).
C3_Year0IsMinusPriceAndFee ==
    (mortgage_percent = 0 /\ dd_cost = 0 /\ Len(cash_flows) >= 1)
    => /\ cash_flows[1] = R(-(purchase_price + loan_arrangement_fee))
       /\ cf_table[1].CashFlow = cash_flows[1]

\* C3 witness: such a run with a price and a fee, year 0 written.
C3_Witness ==
    /\ mortgage_percent = 0 /\ dd_cost = 0 /\ Len(cash_flows) >= 1
    /\ purchase_price > 0 /\ loan_arrangement_fee > 0

\* C5 (as claimed): no cash-flow entry is ever produced from parameters that
\* violate a data-model invariant.
C5_InvalidParametersProduceNothing ==
    ~SatisfiesDataModel => cash_flows = <<>> /\ cf_table = <<>>

IsAnnuityCheck ==
    /\ loan_amount = R(60000000)
    /\ loan_interest_rate = 5 /\ loan_repayment_term = 5
    /\ annual_loan_payment # None

Within1(x, k) == ~RLess(x, R(k - 1)) /\ ~RLess(R(k + 1), x)

\* C9 (as claimed): the payment on 60,000,000 at 5 % over 5 years is 13,864,088
\* to within 1.
C9_PaymentIs13864088 == IsAnnuityCheck => Within1(annual_loan_payment, 13864088)

\* C9 (amended): the payment on 60,000,000 at 5 % over 5 years is 13,858,488 to
\* within 1.
C9_PaymentIs13858488 == IsAnnuityCheck => Within1(annual_loan_payment, 13858488)

\* C9 witness: that payment has been computed.
C9_Witness == IsAnnuityCheck /\ pc = "year"

\* C10 (as claimed): for parameters satisfying the data model, the divisor of the
\* payment is not zero where the payment is computed, and the run does not raise.
C10_PaymentAlwaysDefined ==
    SatisfiesDataModel =>
        /\ raised = "none"
        /\ pc = "financing" => ~RIsZero(AnnuityDenominator)

\* ------------------------------------------------------------ a call of estimate_resale_price

\* Largest investment_term passed directly to estimate_resale_price.
MaxTerm == 10

\* A call estimate_resale_price(vessel_type, investment_term, three_yr_tc) with any
\* term, as the function accepts it.
InitResale ==
    /\ vessel_type \in VesselTypes
    /\ investment_term \in 1..MaxTerm
    /\ three_yr_tc \in {0, 10000, 30000}
    /\ InitInputsIdle
    /\ InitBodyIdle /\ cash_flows = <<>>
    /\ InitCallIdle
    /\ pc = "call"

\* lines 6-15
EstimateResale ==
    /\ pc = "call"
    /\ resale_price' = estimate_resale_price(vessel_type, investment_term, three_yr_tc)
    /\ pc' = "returned"
    /\ UNCHANGED <<inputs, resale_price_net, initial_equity, loan_amount, annual_loan_payment,
                   cash_flows, cf_table, opex, year, call, rate, i, irr_result,
                   returned_at, raised>>

SpecResale == InitResale /\ [][EstimateResale]_vars

\* C4 (as claimed): for a holding period other than 5 and 10 the estimate is the
\* one of the same vessel class at holding period 10.
C4_FallbackToSameClass10 ==
    (pc = "returned" /\ investment_term \notin {5, 10})
    => resale_price = estimate_resale_price(vessel_type, 10, three_yr_tc)


\* ------------------------------------------------------------ calculate_irr

\* Largest numerator and denominator of an iterate the model follows.
MaxMag == 40

\* Largest max_iterations of the enumerated calls.
MaxIter == 2

\* Longest enumerated schedule.
MaxLen == 3

InRange(x) == Abs(Plain(x)) <= MaxMag /\ x.d <= MaxMag

\* line 21: sum(cf / (1 + rate) ** idx for idx, cf in enumerate(cash_flows))
RECURSIVE NpvFrom(_, _, _)
NpvFrom(cfs, r, k) ==
    IF k = 0 THEN Zero
    ELSE RAdd(NpvFrom(cfs, r, k - 1),
              RDiv(cfs[k], RPow(RAdd(R(1), r), k - 1)))

npv(cfs, r) == NpvFrom(cfs, r, Len(cfs))

\* line 22: sum(-idx * cf / (1 + rate) ** (idx + 1) for idx, cf in enumerate(cash_flows))
RECURSIVE DerivativeFrom(_, _, _)
DerivativeFrom(cfs, r, k) ==
    IF k = 0 THEN Zero
    ELSE RAdd(DerivativeFrom(cfs, r, k - 1),
              RDiv(RMul(R(-(k - 1)), cfs[k]), RPow(RAdd(R(1), r), k)))

\* line 22 with the exponent idx in place of idx + 1
RECURSIVE DerivativeSameExponent(_, _, _)
DerivativeSameExponent(cfs, r, k) ==
    IF k = 0 THEN Zero
    ELSE RAdd(DerivativeSameExponent(cfs, r, k - 1),
              RDiv(RMul(R(-(k - 1)), cfs[k]), RPow(RAdd(R(1), r), k - 1)))

derivativeSameExponent(cfs, r) == DerivativeSameExponent(cfs, r, Len(cfs))

derivative(cfs, r) == DerivativeFrom(cfs, r, Len(cfs))

\* line 25
new_rate(cfs, r) == RSub(r, RDiv(npv(cfs, r), derivative(cfs, r)))

\* line 26 with the comparison turned round
ConvergedReversed(cfs, r, tol) == RLess(tol, RAbs(RSub(new_rate(cfs, r), r)))

\* line 26
Converged(cfs, r, tol) == RLess(RAbs(RSub(new_rate(cfs, r), r)), tol)

\* line 24: return float('nan')
ReturnUndefined == NaN

\* line 29: return float('nan')
ReturnNoConvergence == NaN

\* line 27: return new_rate * 100
ReturnRate(cfs, r) == RMul(new_rate(cfs, r), R(100))

\* (1 + rate) ** k is 0.0 for k >= 1 when rate = -1, and line 22 divides by it
\* for idx = 0 already: float division by zero.
DividesByZero(cfs, r) == Len(cfs) >= 1 /\ RIsZero(RAdd(R(1), r))

Schedules == UNION {[1..k -> {R(-2), R(-1), R(0), R(1), R(2)}] : k \in 0..MaxLen}

Guesses == {Frac(1, 10), R(0), R(1), R(-1), R(-2)}

Tolerances == {Frac(1, 1000000), Frac(1, 4), R(1)}

\* A call calculate_irr(cash_flows, guess, max_iterations, tolerance): either an
\* enumerated small call or the call of line 105 (all defaults) on [-100, 110].
InitIrr ==
    /\ vessel_type = "Suezmax" /\ investment_term = 5 /\ three_yr_tc = 0
    /\ InitInputsIdle
    /\ InitBodyIdle
    /\ \/ /\ cash_flows \in Schedules
          /\ guess \in Guesses
          /\ max_iterations \in 0..MaxIter
          /\ tolerance \in Tolerances
       \/ /\ cash_flows = <<R(-100), R(110)>>
          /\ guess = Frac(1, 10)
          /\ max_iterations = 1000
          /\ tolerance = Frac(1, 1000000)
    /\ rate = guess          \* line 19
    /\ i = 0
    /\ irr_result = None
    /\ pc = "loop" /\ returned_at = 0 /\ raised = "none"

InBody == pc = "loop" /\ i < max_iterations /\ InRange(rate)

\* lines 21-22 raise ZeroDivisionError
IrrRaise ==
    /\ InBody
    /\ DividesByZero(cash_flows, rate)
    /\ pc' = "raised" /\ raised' = "ZeroDivisionError"
    /\ UNCHANGED <<inputs, body, cash_flows, call, rate, i, irr_result, returned_at>>

\* lines 23-24
IrrReturnUndefined ==
    /\ InBody
    /\ ~DividesByZero(cash_flows, rate)
    /\ RIsZero(derivative(cash_flows, rate))
    /\ irr_result' = ReturnUndefined
    /\ pc' = "returned" /\ returned_at' = 24
    /\ UNCHANGED <<inputs, body, cash_flows, call, rate, i, raised>>

\* lines 25-27
IrrReturnRate ==
    /\ InBody
    /\ ~DividesByZero(cash_flows, rate)
    /\ ~RIsZero(derivative(cash_flows, rate))
    /\ Converged(cash_flows, rate, tolerance)
    /\ irr_result' = ReturnRate(cash_flows, rate)
    /\ pc' = "returned" /\ returned_at' = 27
    /\ UNCHANGED <<inputs, body, cash_flows, call, rate, i, raised>>

\* lines 25-28 and the next turn of the for loop
IrrIterate ==
    /\ InBody
    /\ ~DividesByZero(cash_flows, rate)
    /\ ~RIsZero(derivative(cash_flows, rate))
    /\ ~Converged(cash_flows, rate, tolerance)
    /\ rate' = new_rate(cash_flows, rate)
    /\ i' = i + 1
    /\ UNCHANGED <<inputs, body, cash_flows, call, irr_result, pc, returned_at, raised>>

\* line 29
IrrReturnNoConvergence ==
    /\ pc = "loop" /\ i >= max_iterations
    /\ irr_result' = ReturnNoConvergence
    /\ pc' = "returned" /\ returned_at' = 29
    /\ UNCHANGED <<inputs, body, cash_flows, call, rate, i, raised>>

NextIrr ==
    \/ IrrRaise
    \/ IrrReturnUndefined
    \/ IrrReturnRate
    \/ IrrIterate
    \/ IrrReturnNoConvergence

SpecIrr == InitIrr /\ [][NextIrr]_vars

\* ------------------------------------------------------------ claims on calculate_irr

IsDefaultCall ==
    /\ cash_flows = <<R(-100), R(110)>>
    /\ guess = Frac(1, 10) /\ max_iterations = 1000 /\ tolerance = Frac(1, 1000000)

\* f(r) = sum of cf[i] / (1+r)^i, by Horner's rule in 1/(1+r).
RECURSIVE F(_, _)
F(cfs, r) ==
    IF cfs = <<>> THEN Zero
    ELSE RAdd(Head(cfs), RMul(RInv(RAdd(R(1), r)), F(Tail(cfs), r)))

\* f'(r) = sum of -i * cf[i] / (1+r)^(i+1), summed from the last term down.
RECURSIVE FPrime(_, _, _)
FPrime(cfs, r, idx) ==
    IF idx >= Len(cfs) THEN Zero
    ELSE RAdd(RNeg(RDiv(RMul(R(idx), cfs[idx + 1]), RPow(RAdd(R(1), r), idx + 1))),
              FPrime(cfs, r, idx + 1))

\* r_0 = guess, r_{k+1} = r_k - f(r_k) / f'(r_k)
RECURSIVE Newton(_, _, _)
Newton(cfs, g, k) ==
    IF k = 0 THEN g
    ELSE LET p == Newton(cfs, g, k - 1)
         IN  RSub(p, RDiv(F(cfs, p), FPrime(cfs, p, 0)))

StepBelowTolerance(k) ==
    RLess(RAbs(RSub(Newton(cash_flows, guess, k + 1), Newton(cash_flows, guess, k))),
          tolerance)

\* C2 (as claimed): the value returned for a zero derivative differs from the one
\* returned when max_iterations is exhausted, and neither is returned as a rate,
\* so that the result alone tells which of the three outcomes occurred.
C2_OutcomesDistinguishable ==
    pc = "returned" =>
        /\ (returned_at = 24 => irr_result # ReturnNoConvergence)
        /\ (returned_at = 29 => irr_result # ReturnUndefined)
        /\ (returned_at = 27 => irr_result \notin {ReturnUndefined, ReturnNoConvergence})

\* C6: a rate is returned only at the first Newton step k with
\* |r_{k+1} - r_k| < tolerance, the value is r_{k+1} * 100, and the default call
\* on [-100, 110] returns 10 percent to within the tolerance.
C6_ReturnsAtFirstConvergedStep ==
    /\ returned_at = 27 =>
          /\ rate = Newton(cash_flows, guess, i)
          /\ StepBelowTolerance(i)
          /\ \A k \in 0..(i - 1) : ~StepBelowTolerance(k)
          /\ irr_result = RMul(Newton(cash_flows, guess, i + 1), R(100))
    /\ (IsDefaultCall /\ pc # "loop") =>
          /\ returned_at = 27
          /\ RLess(RAbs(RSub(irr_result, R(10))), tolerance)

\* C6 witness: a rate returned after at least one full iteration, under a
\* tolerance below 1.
C6_Witness ==
    /\ returned_at = 27 /\ i >= 1 /\ RLess(tolerance, R(1))
    /\ ~RIsZero(npv(cash_flows, guess))

NonNegative(cfs) == \A k \in 1..Len(cfs) : cfs[k].n >= 0

\* C7 (as claimed): a schedule of non-negative amounts never yields a rate,
\* whatever the guess, the iteration limit and the tolerance.
C7_NoSignChangeNeverARate ==
    NonNegative(cash_flows) => returned_at # 27

\* C7 (amended): for a schedule of non-negative whole amounts, a guess >= 0 and a
\* tolerance <= 1 / len(cash_flows), no rate is ever returned.
C7_NoRateFromNonNegativeGuess ==
    (/\ NonNegative(cash_flows)
     /\ guess.n >= 0
     /\ Len(cash_flows) >= 1
     /\ ~RLess(Frac(1, Len(cash_flows)), tolerance))
    => returned_at # 27

\* C7 witness: such a call that iterated and then ended at line 29.
C7_Witness ==
    /\ NonNegative(cash_flows) /\ guess.n >= 0 /\ Len(cash_flows) >= 2
    /\ ~RLess(Frac(1, Len(cash_flows)), tolerance)
    /\ \E k \in 1..Len(cash_flows) : cash_flows[k].n > 0
    /\ returned_at = 29 /\ i >= 2

\* C8 (as claimed): every call ends within max_iterations iterations in a rate,
\* undefined or no convergence; no iterate makes the evaluation raise.
C8_NoFatalError ==
    /\ i <= max_iterations
    /\ pc # "raised"

====
